---- MODULE Spec2Model ----
(***************************************************************************)
(* A model of app.py, the Smart Quiz Publisher: the merge of a question    *)
(* and an answer JSON file (merge_json_data), the text helpers             *)
(* (format_question_text, clean_table_row, smart_break_paragraphs,         *)
(* smart_highlight), the block assembly of create_elegant_pdf and the      *)
(* Streamlit script with its session state.                                *)
(*                                                                         *)
(* A Python str is a sequence of one-character strings.  A regular         *)
(* expression is a tree of nodes and is matched the way Python's re        *)
(* matches it: leftmost start, alternatives in order, greedy or lazy       *)
(* repetition with backtracking, groups, assertions.                       *)
(***************************************************************************)
EXTENDS Integers, Sequences, FiniteSets, TLC

\* ------------------------------------------------------------------------
\* Characters and Python str methods
\* ------------------------------------------------------------------------
LowerSeq == <<"a","b","c","d","e","f","g","h","i","j","k","l","m","n","o","p","q","r","s","t","u","v","w","x","y","z">>
UpperSeq == <<"A","B","C","D","E","F","G","H","I","J","K","L","M","N","O","P","Q","R","S","T","U","V","W","X","Y","Z">>
LowerAZ == {LowerSeq[i] : i \in 1..Len(LowerSeq)}
UpperAZ == {UpperSeq[i] : i \in 1..Len(UpperSeq)}
Digits == {"0", "1", "2", "3", "4", "5", "6", "7", "8", "9"}
Whitespace == {" ", "\n", "\t"}
WordChars == LowerAZ \cup UpperAZ \cup Digits \cup {"_"}

ToUpper(c) ==
  IF c \in LowerAZ THEN UpperSeq[CHOOSE i \in 1..Len(LowerSeq) : LowerSeq[i] = c] ELSE c

ToLower(c) ==
  IF c \in UpperAZ THEN LowerSeq[CHOOSE i \in 1..Len(UpperSeq) : UpperSeq[i] = c] ELSE c

Min(S) == CHOOSE x \in S : \A y \in S : x <= y
Max(S) == CHOOSE x \in S : \A y \in S : x >= y

\* str.upper()
StrUpper(s) == [i \in 1..Len(s) |-> ToUpper(s[i])]

\* str.strip(): leading and trailing whitespace removed
StrStrip(s) ==
  LET keep == {i \in 1..Len(s) : s[i] \notin Whitespace}
  IN  IF keep = {} THEN <<>> ELSE SubSeq(s, Min(keep), Max(keep))

\* d occurs in s right after its first i characters
StartsAt(s, d, i) ==
  /\ i >= 0
  /\ i + Len(d) <= Len(s)
  /\ \A k \in 1..Len(d) : s[i + k] = d[k]

\* str.find(d, from): offset of the first occurrence at or after from, or -1
StrFind(s, d, from) ==
  LET at == {i \in from..(Len(s) - Len(d)) : StartsAt(s, d, i)}
  IN  IF at = {} THEN -1 ELSE Min(at)

\* str.rfind(d)
StrRFind(s, d) ==
  LET at == {i \in 0..(Len(s) - Len(d)) : StartsAt(s, d, i)}
  IN  IF at = {} THEN -1 ELSE Max(at)

\* d in s
StrContains(s, d) == StrFind(s, d, 0) # -1

\* str.replace(d, r): every occurrence of d, left to right, without overlap
RECURSIVE StrReplace(_, _, _)
StrReplace(s, d, r) ==
  LET p == StrFind(s, d, 0)
  IN  IF p = -1 THEN s
      ELSE SubSeq(s, 1, p) \o r \o StrReplace(SubSeq(s, p + Len(d) + 1, Len(s)), d, r)

\* str.split(d): the parts between the occurrences of d
RECURSIVE StrSplit(_, _)
StrSplit(s, d) ==
  LET p == StrFind(s, d, 0)
  IN  IF p = -1 THEN <<s>>
      ELSE <<SubSeq(s, 1, p)>> \o StrSplit(SubSeq(s, p + Len(d) + 1, Len(s)), d)

\* str.split(d, 1): split at the first occurrence only
StrSplit1(s, d) ==
  LET p == StrFind(s, d, 0)
  IN  IF p = -1 THEN <<s>>
      ELSE <<SubSeq(s, 1, p), SubSeq(s, p + Len(d) + 1, Len(s))>>

\* str.rsplit(d, 1): split at the last occurrence only
StrRSplit1(s, d) ==
  LET p == StrRFind(s, d)
  IN  IF p = -1 THEN <<s>>
      ELSE <<SubSeq(s, 1, p), SubSeq(s, p + Len(d) + 1, Len(s))>>

\* "".join(parts)
RECURSIVE StrConcat(_)
StrConcat(parts) ==
  IF parts = <<>> THEN <<>> ELSE Head(parts) \o StrConcat(Tail(parts))

\* str(n) of a small non-negative integer
DigitSeq == <<"0","1","2","3","4","5","6","7","8","9">>
RECURSIVE StrOfInt(_)
StrOfInt(n) ==
  IF n < 10 THEN <<DigitSeq[n + 1]>> ELSE StrOfInt(n \div 10) \o <<DigitSeq[(n % 10) + 1]>>

\* ------------------------------------------------------------------------
\* Regular expressions (module re)
\* ------------------------------------------------------------------------
Set(cs) == [t |-> "set", cs |-> cs]
Chr(c) == Set({c})
AnyChar == [t |-> "any"]
Cat(rs) == [t |-> "cat", rs |-> rs]
Alt(rs) == [t |-> "alt", rs |-> rs]
\* the characters of str, one after the other
Lit(str) == [t |-> "lit", str |-> str]
\* c{min,} of a one-character node c, greedy or lazy
Rep(c, min, greedy) == [t |-> "rep", c |-> c, min |-> min, greedy |-> greedy]
Star(c) == Rep(c, 0, TRUE)
Plus(c) == Rep(c, 1, TRUE)
LazyStar(c) == Rep(c, 0, FALSE)
Opt(r) == Alt(<<r, Cat(<<>>)>>)
Times(c, n) == Cat([i \in 1..n |-> c])
Grp(n, r) == [t |-> "grp", n |-> n, r |-> r]
Bol == [t |-> "bol"]
Eos == [t |-> "eos"]
Wb == [t |-> "wb"]
La(r) == [t |-> "la", r |-> r]
\* a lookbehind of fixed width w
Lb(w, r) == [t |-> "lb", w |-> w, r |-> r]

ReS == Set(Whitespace)
ReD == Set(Digits)

FAIL == [end |-> -1, caps |-> <<>>]

InCls(c, node, ci) ==
  \/ node.t = "any"
  \/ /\ node.t = "set"
     /\ \/ c \in node.cs
        \/ ci /\ (ToLower(c) \in node.cs \/ ToUpper(c) \in node.cs)

\* how many characters after the first i are in the class of node, in a row
RunLen(s, i, node, ci) ==
  LET bad == {j \in 1..(Len(s) - i) : ~InCls(s[i + j], node, ci)}
  IN  IF bad = {} THEN Len(s) - i ELSE Min(bad) - 1

\* Of the pairs <<k, match>>, the match of the least (or the greatest) k that
\* did not fail
Pick(tries, least) ==
  LET ok == {x \in tries : x[2].end # -1}
  IN  IF ok = {} THEN FAIL
      ELSE (CHOOSE x \in ok : \A y \in ok : IF least THEN x[1] <= y[1] ELSE x[1] >= y[1])[2]

\* M(st, s, i, caps, ci): the nodes of st matched one after the other from
\* offset i of s, the first way backtracking finds; the end offset and the
\* groups, or FAIL
RECURSIVE M(_, _, _, _, _)
M(st, s, i, caps, ci) ==
  IF st = <<>> THEN [end |-> i, caps |-> caps]
  ELSE
    LET h == Head(st)
        r == Tail(st)
    IN
    CASE h.t \in {"set", "any"} ->
           IF i < Len(s) /\ InCls(s[i + 1], h, ci) THEN M(r, s, i + 1, caps, ci) ELSE FAIL
      [] h.t = "cat" -> M(h.rs \o r, s, i, caps, ci)
      [] h.t = "lit" ->
           IF /\ i + Len(h.str) <= Len(s)
              /\ \A j \in 1..Len(h.str) : InCls(s[i + j], Chr(h.str[j]), ci)
           THEN M(r, s, i + Len(h.str), caps, ci) ELSE FAIL
      [] h.t = "alt" ->
           Pick({<<k, M(<<h.rs[k]>> \o r, s, i, caps, ci)>> : k \in 1..Len(h.rs)}, TRUE)
      [] h.t = "rep" ->
           Pick({<<k, M(r, s, i + k, caps, ci)>> : k \in h.min..RunLen(s, i, h.c, ci)},
                ~h.greedy)
      [] h.t = "grp" -> M(<<h.r, [t |-> "close", n |-> h.n, from |-> i]>> \o r, s, i, caps, ci)
      [] h.t = "close" -> M(r, s, i, [caps EXCEPT ![h.n] = <<h.from, i>>], ci)
      [] h.t = "bol" -> IF i = 0 THEN M(r, s, i, caps, ci) ELSE FAIL
      [] h.t = "eos" -> IF i = Len(s) THEN M(r, s, i, caps, ci) ELSE FAIL
      [] h.t = "wb" ->
           IF (i > 0 /\ s[i] \in WordChars) # (i < Len(s) /\ s[i + 1] \in WordChars)
           THEN M(r, s, i, caps, ci) ELSE FAIL
      [] h.t = "la" ->
           IF M(<<h.r>>, s, i, caps, ci).end # -1 THEN M(r, s, i, caps, ci) ELSE FAIL
      [] h.t = "lb" ->
           IF i >= h.w /\ M(<<h.r>>, s, i - h.w, caps, ci).end = i
           THEN M(r, s, i, caps, ci) ELSE FAIL

NoCaps(ng) == [g \in 1..ng |-> <<-1, -1>>]

\* A search that found nothing has start = -1
Found(m) == IF m.end = -1 THEN [start |-> -1, end |-> -1, caps |-> <<>>] ELSE m

\* re.search(re, s) from offset pos: the leftmost match, or start = -1
ReSearch(re, ng, s, pos, ci) ==
  Found(Pick({<<p, [start |-> p] @@ M(<<re>>, s, p, NoCaps(ng), ci)>> : p \in pos..Len(s)},
             TRUE))

\* match.group(g); a group that took no part is ''
GroupText(s, m, g) ==
  IF m.caps[g][1] = -1 THEN <<>> ELSE SubSeq(s, m.caps[g][1] + 1, m.caps[g][2])

\* Where the scan goes on after a match (an empty match moves on by one)
NextPos(m) == IF m.end > m.start THEN m.end ELSE m.start + 1

\* re.finditer(re, s): the matches, left to right, without overlap
RECURSIVE ReMatches(_, _, _, _, _)
MatchesAfter(re, ng, s, ci, m) ==
  IF m.start = -1 THEN <<>>
  ELSE <<m>> \o ReMatches(re, ng, s, NextPos(m), ci)

ReMatches(re, ng, s, pos, ci) == MatchesAfter(re, ng, s, ci, ReSearch(re, ng, s, pos, ci))

\* The tuple of the ng groups of every match
GroupsOf(ms, ng, s) == [k \in 1..Len(ms) |-> [g \in 1..ng |-> GroupText(s, ms[k], g)]]

\* re.findall(re, s) of a pattern with ng groups: the tuple of groups per match
ReFindAll(re, ng, s, ci) == GroupsOf(ReMatches(re, ng, s, 0, ci), ng, s)

\* A replacement template: literal pieces and group references
TLit(str) == [lit |-> str]
TRef(g) == [ref |-> g]
RECURSIVE Expand(_, _, _)
Expand(repl, s, m) ==
  IF repl = <<>> THEN <<>>
  ELSE (IF "lit" \in DOMAIN Head(repl) THEN Head(repl).lit
        ELSE GroupText(s, m, Head(repl).ref)) \o Expand(Tail(repl), s, m)

\* re.sub(re, repl, s)
RECURSIVE ReSubFrom(_, _, _, _, _, _)
SubAfter(re, ng, repl, s, pos, ci, m) ==
  IF m.start = -1 THEN SubSeq(s, pos + 1, Len(s))
  ELSE SubSeq(s, pos + 1, m.start) \o Expand(repl, s, m)
       \o SubSeq(s, m.end + 1, NextPos(m))
       \o ReSubFrom(re, ng, repl, s, NextPos(m), ci)

ReSubFrom(re, ng, repl, s, pos, ci) ==
  SubAfter(re, ng, repl, s, pos, ci, ReSearch(re, ng, s, pos, ci))

ReSub(re, ng, repl, s, ci) == ReSubFrom(re, ng, repl, s, 0, ci)

\* re.split(re, s) of a pattern without groups
RECURSIVE ReSplitFrom(_, _, _, _)
SplitAfter(re, s, from, m) ==
  IF m.start = -1 THEN <<SubSeq(s, from + 1, Len(s))>>
  ELSE <<SubSeq(s, from + 1, m.start)>> \o ReSplitFrom(re, s, NextPos(m), m.end)

ReSplitFrom(re, s, pos, from) == SplitAfter(re, s, from, ReSearch(re, 0, s, pos, FALSE))

ReSplit(re, s) == ReSplitFrom(re, s, 0, 0)
\* ------------------------------------------------------------------------
\* 1. Helper: smart text processing
\* ------------------------------------------------------------------------

\* (\s)(\d+\.\s+[A-Z])
pattern_num ==
  Cat(<<Grp(1, ReS), Grp(2, Cat(<<Plus(ReD), Chr("."), Plus(ReS), Set(UpperAZ)>>))>>)

\* (Assertion|Reason)
pattern_ar == Grp(1, Alt(<<Lit(<<"A","s","s","e","r","t","i","o","n">>), Lit(<<"R","e","a","s","o","n">>)>>))

format_question_text(text) ==
  IF text = <<>> THEN <<>>
  ELSE LET t1 == ReSub(pattern_num, 2, <<TLit(<<"<","b","r","/",">">>), TRef(2)>>, text, FALSE)
       IN  ReSub(pattern_ar, 1, <<TLit(<<"<","b","r","/",">","<","b",">">>), TRef(1), TLit(<<"<","/","b",">">>)>>, t1, FALSE)

split_markers ==
  << <<"H","o","w"," ","m","a","n","y">>, <<"S","e","l","e","c","t"," ","t","h","e">>, <<"W","h","i","c","h"," ","o","f">>, <<"C","o","n","s","i","d","e","r"," ","t","h","e">>,
     <<"I","n"," ","t","h","e"," ","c","o","n","t","e","x","t">>, <<"S","e","l","e","c","t"," ","c","o","r","r","e","c","t">> >>

\* The pair (cleaned right cell, outro text) of the last table row
clean_table_row(right_text) ==
  LET hits == {k \in 1..Len(split_markers) : StrContains(right_text, split_markers[k])}
  IN  IF hits # {}
      THEN LET marker == split_markers[Min(hits)]
               parts == StrSplit1(right_text, marker)
           IN  <<StrStrip(parts[1]), marker \o parts[2]>>
      ELSE IF StrContains(right_text, <<"\n">>)
                /\ LET parts == StrRSplit1(right_text, <<"\n">>)
                   IN  Len(parts[2]) > 5 /\ parts[2][1] \in UpperAZ
           THEN LET parts == StrRSplit1(right_text, <<"\n">>)
                IN  <<StrStrip(parts[1]), StrStrip(parts[2])>>
           ELSE <<right_text, <<>> >>

SPLIT == <<"<","S","P","L","I","T",">">>

\* The ASCII bullets of [bullet glyphs \- \*]; the glyphs themselves are not
\* characters of any text of this model
BulletChars == {"-", "*"}

\* bullets; (a), (i), (1); i. ii. iii.
strict_patterns ==
  << Cat(<<Set(BulletChars), Plus(ReS)>>),
     Cat(<<Chr("("),
           Alt(<<Set(LowerAZ \cup UpperAZ),
                 Plus(Set({"i", "v", "x", "I", "V", "X"})),
                 Plus(ReD)>>),
           Chr(")")>>),
     Cat(<<Wb, Plus(Set({"i", "v", "x"})), Chr("."), Plus(ReS)>>) >>

\* (?:^|(?<=[.!?]\s))([IVX]+|[A-Z])\.\s+
conditional_pattern ==
  Cat(<<Alt(<<Bol, Lb(2, Cat(<<Set({".", "!", "?"}), ReS>>))>>),
        Grp(1, Alt(<<Plus(Set({"I", "V", "X"})), Set(UpperAZ)>>)),
        Chr("."), Plus(ReS)>>)

IsCorrect == Cat(<<Lit(<<" ","i","s"," ">>), Opt(Lit(<<"i","n">>)), Lit(<<"c","o","r","r","e","c","t">>), Opt(Chr(":"))>>)

default_breaks ==
  << Cat(<<Lit(<<"P","a","i","r"," ">>), Plus(Set({"I", "V", "X"} \cup Digits)), IsCorrect>>),
     Cat(<<Lit(<<"S","t","a","t","e","m","e","n","t"," ">>), Plus(Set({"I", "V", "X"} \cup Digits)), IsCorrect>>),
     Cat(<<Lit(<<"O","p","t","i","o","n"," ">>), Set({"a", "b", "c", "d"}), IsCorrect>>),
     Lit(<<"A","s","s","e","r","t","i","o","n">>),
     Lit(<<"R","e","a","s","o","n">>),
     Cat(<<Wb, Set(UpperAZ), Plus(Set(LowerAZ \cup UpperAZ)), Chr(":")>>) >>

\* re.escape(key.strip()) of every key whose strip() is not empty
RECURSIVE EscapedKeys(_)
EscapedKeys(keys) ==
  IF keys = <<>> THEN <<>>
  ELSE (IF StrStrip(Head(keys)) # <<>> THEN <<Lit(StrStrip(Head(keys)))>> ELSE <<>>)
       \o EscapedKeys(Tail(keys))

\* A. the list markers get <SPLIT> in front, one pattern after the other
RECURSIVE ApplyStrict(_, _)
ApplyStrict(ps, text) ==
  IF ps = <<>> \/ text = <<>> THEN text
  ELSE ApplyStrict(Tail(ps),
                   ReSub(Grp(1, Head(ps)), 1, <<TLit(SPLIT), TRef(1)>>, text, FALSE))

MarkLists(text) ==
  ReSub(conditional_pattern, 1, <<TLit(SPLIT), TRef(1), TLit(<<"."," ">>)>>,
        ApplyStrict(strict_patterns, text), FALSE)

\* B. the forced break patterns and the user's keys, one alternation,
\* ignoring case
MarkBreaks(text, user_break_keys) ==
  ReSub(Grp(1, Alt(default_breaks \o EscapedKeys(user_break_keys))), 1,
        <<TLit(SPLIT), TRef(1)>>, text, TRUE)

\* (?<=[.!?])\s+
sentence_end == Cat(<<Lb(1, Set({".", "!", "?"})), Plus(ReS)>>)

\* C. the sentences of a long segment gathered into chunks: the pair
\* (paragraphs closed so far, current_chunk) after the sentences given
RECURSIVE Accumulate(_, _, _, _)
Accumulate(sentences, max_chars, paragraphs, current_chunk) ==
  IF sentences = <<>> THEN <<paragraphs, current_chunk>>
  ELSE LET chunk == current_chunk \o Head(sentences) \o <<" ">>
       IN  IF Len(chunk) > max_chars
           THEN Accumulate(Tail(sentences), max_chars, Append(paragraphs, StrStrip(chunk)), <<>>)
           ELSE Accumulate(Tail(sentences), max_chars, paragraphs, chunk)

\* After the loop over sentences: the last current_chunk is appended too
Flush(acc) == IF acc[2] # <<>> THEN Append(acc[1], StrStrip(acc[2])) ELSE acc[1]

\* Fault: the last current_chunk is not appended after the loop
ReflowSegmentNoFlush(raw_segment, max_chars) ==
  LET segment == StrStrip(raw_segment)
  IN  IF segment = <<>> THEN <<>>
      ELSE IF Len(segment) < max_chars THEN <<segment>>
      ELSE Accumulate(ReSplit(sentence_end, segment), max_chars, <<>>, <<>>)[1]

\* The body of the loop over raw_segments: the paragraphs one segment adds
ReflowSegment(raw_segment, max_chars) ==
  LET segment == StrStrip(raw_segment)
  IN  IF segment = <<>> THEN <<>>
      ELSE IF Len(segment) < max_chars THEN <<segment>>
      ELSE Flush(Accumulate(ReSplit(sentence_end, segment), max_chars, <<>>, <<>>))

RECURSIVE ReflowAll(_, _)
ReflowAll(raw_segments, max_chars) ==
  IF raw_segments = <<>> THEN <<>>
  ELSE ReflowSegment(Head(raw_segments), max_chars) \o ReflowAll(Tail(raw_segments), max_chars)

RawSegments(text, user_break_keys) ==
  StrSplit(MarkBreaks(MarkLists(text), user_break_keys), SPLIT)

smart_break_paragraphs(text, max_chars, user_break_keys) ==
  IF text = <<>> THEN <<>>
  ELSE ReflowAll(RawSegments(text, user_break_keys), max_chars)

IsWhatCorrect(what) ==
  Cat(<<Lit(<<" ","i","s"," ">>), Star(Set(LowerAZ \cup {" "})), Lit(what), Opt(Chr(":"))>>)

\* The built-in spans, in the order they are applied
highlight_patterns ==
  << Cat(<<Lit(<<"O","p","t","i","o","n"," ">>), Set({"a", "b", "c", "d"}), IsWhatCorrect(<<"c","o","r","r","e","c","t">>)>>),
     Cat(<<Lit(<<"S","t","a","t","e","m","e","n","t"," ">>), Plus(ReD), IsWhatCorrect(<<"c","o","r","r","e","c","t">>)>>),
     Cat(<<Lit(<<"P","a","i","r"," ">>), Plus(Set({"I", "V", "X"} \cup Digits)), IsWhatCorrect(<<"c","o","r","r","e","c","t">>)>>),
     Cat(<<Lit(<<"P","a","i","r"," ">>), Plus(Set({"I", "V", "X"} \cup Digits)), IsWhatCorrect(<<"i","n","c","o","r","r","e","c","t">>)>>),
     Cat(<<Wb, Times(ReD, 4), Wb>>),
     Cat(<<Lit(<<"A","r","t","i","c","l","e"," ">>), Plus(ReD)>>),
     Cat(<<Lit(<<"S","e","c","t","i","o","n"," ">>), Plus(ReD)>>),
     Cat(<<Lit(<<"S","c","h","e","d","u","l","e"," ">>), Plus(ReD)>>),
     Lit(<<"A","m","e","n","d","m","e","n","t">>),
     Cat(<<Lit(<<"A","c","t"," ">>), Times(ReD, 4)>>) >>

\* (\b[A-Z][a-zA-Z]+:)
def_pattern ==
  Grp(1, Cat(<<Wb, Set(UpperAZ), Plus(Set(LowerAZ \cup UpperAZ)), Chr(":")>>))

\* Every pattern in turn wraps its matches in <b>...</b>, ignoring case
RECURSIVE ApplyBold(_, _)
ApplyBold(ps, text) ==
  IF ps = <<>> \/ text = <<>> THEN text
  ELSE ApplyBold(Tail(ps),
                 ReSub(Grp(1, Head(ps)), 1, <<TLit(<<"<","b",">">>), TRef(1), TLit(<<"<","/","b",">">>)>>,
                       text, TRUE))

smart_highlight(text, user_highlight_keys) ==
  IF text = <<>> THEN <<>>
  ELSE ReSub(def_pattern, 1,
             <<TLit(<<"<","b",">","<","f","o","n","t"," ","c","o","l","o","r","=","\"","#","8","0","0","0","0","0","\"",">">>), TRef(1), TLit(<<"<","/","f","o","n","t",">","<","/","b",">">>)>>,
             ApplyBold(highlight_patterns \o EscapedKeys(user_highlight_keys), text),
             FALSE)

\* (?:^|\s)([IVX]+|\d+|[A-Z])[\.\)]\s+(.*?)\s+-\s+(.*?)(?=\s(?:[IVX]+|\d+|[A-Z])[\.\)]|\Z)
MarkerRe == Alt(<<Plus(Set({"I", "V", "X"})), Plus(ReD), Set(UpperAZ)>>)

match_pattern ==
  Cat(<<Alt(<<Bol, ReS>>),
        Grp(1, MarkerRe), Set({".", ")"}), Plus(ReS),
        Grp(2, LazyStar(AnyChar)), Plus(ReS), Chr("-"), Plus(ReS),
        Grp(3, LazyStar(AnyChar)),
        La(Alt(<<Cat(<<ReS, MarkerRe, Set({".", ")"})>>), Eos>>)) >>)

\* ------------------------------------------------------------------------
\* 2. Merge engine
\* ------------------------------------------------------------------------
\* JSON: an object is a function on the names of its fields, an array a
\* sequence, a string a sequence of characters.  A file is what json.load
\* makes of it: [json |-> "list", v |-> array], [json |-> "dict", v |-> object]
\* or, when json.load raises, [json |-> "invalid"].  The value of an answer's
\* 'explanation' is [str |-> text] or [dict |-> object].

\* Python's None where an id is expected (q.get('id') of a question without)
None == -1

NoAnswerLabel == <<"N","/","A">>
NoExplanation == <<"N","o"," ","e","x","p","l","a","n","a","t","i","o","n"," ","p","r","o","v","i","d","e","d",".">>
TIPS == <<"|","|","T","I","P","S","|","|">>
EmptyDict == [x \in {} |-> <<>>]

\* d.get(k, default)
Get(d, k, default) == IF k \in DOMAIN d THEN d[k] ELSE default

\* 1. Robust question loading: a list, or a dict with a 'questions' key
LoadQuestions(q_raw) ==
  IF q_raw.json = "dict" /\ "questions" \in DOMAIN q_raw.v THEN q_raw.v["questions"]
  ELSE IF q_raw.json = "list" THEN q_raw.v
  ELSE <<>>

\* ans_dict.get(q_id, {}) of ans_dict = {item['id']: item for item in answers}:
\* the last answer with that id
AnsDictGet(answers, q_id) ==
  LET at == {k \in 1..Len(answers) : answers[k]["id"] = q_id}
  IN  IF at = {} THEN EmptyDict ELSE answers[Max(at)]

\* Fault: ans_obj.get('solution') or ans_obj.get('answer'), the default forgotten
RawAnsNoDefault(ans_obj) ==
  IF "solution" \in DOMAIN ans_obj /\ ans_obj["solution"] # <<>> THEN ans_obj["solution"]
  ELSE IF "answer" \in DOMAIN ans_obj /\ ans_obj["answer"] # <<>> THEN ans_obj["answer"]
  ELSE <<>>

\* ans_obj.get('solution') or ans_obj.get('answer') or 'N/A': the first of
\* them that is there and not empty
RawAns(ans_obj) ==
  IF "solution" \in DOMAIN ans_obj /\ ans_obj["solution"] # <<>> THEN ans_obj["solution"]
  ELSE IF "answer" \in DOMAIN ans_obj /\ ans_obj["answer"] # <<>> THEN ans_obj["answer"]
  ELSE NoAnswerLabel

\* Fault: str(raw_ans).strip().replace('(', '').replace(')', '').upper()
CleanAnsStripFirst(raw_ans) ==
  StrUpper(StrReplace(StrReplace(StrStrip(raw_ans), <<"(">>, <<>>), <<")">>, <<>>))

\* str(raw_ans).replace('(', '').replace(')', '').strip().upper()
CleanAns(raw_ans) ==
  StrUpper(StrStrip(StrReplace(StrReplace(raw_ans, <<"(">>, <<>>), <<")">>, <<>>)))

FinalExp(ans_obj) ==
  LET raw_exp == Get(ans_obj, "explanation", [str |-> NoExplanation])
  IN  IF "dict" \in DOMAIN raw_exp
      THEN LET details == Get(raw_exp.dict, "exp_details", <<>>)
               tips == Get(raw_exp.dict, "important_tips", <<>>)
           IN  IF tips # <<>> THEN details \o <<" ","|","|","T","I","P","S","|","|"," ">> \o tips ELSE details
      ELSE raw_exp.str

\* The record the loop appends for question q
MergedRecord(q, answers) ==
  LET q_id == Get(q, "id", None)
      ans_obj == AnsDictGet(answers, q_id)
  IN  [id |-> q_id,
       question |-> Get(q, "question", <<>>),
       options |-> Get(q, "options", <<>>),
       source |-> Get(q, "source", <<>>),
       answer_key |-> CleanAns(RawAns(ans_obj)),
       explanation |-> FinalExp(ans_obj)]

\* list.sort(key=...): stable, ascending
SortByKey(seq, keys) ==
  LET n == Len(seq)
      Rank(j) == Cardinality({k \in 1..n : keys[k] < keys[j] \/ (keys[k] = keys[j] /\ k < j)}) + 1
  IN  [i \in 1..n |-> seq[CHOOSE j \in 1..n : Rank(j) = i]]

\* Fault: the sort left out
SortByIdUnsorted(merged) == merged

SortById(merged) == SortByKey(merged, [k \in 1..Len(merged) |-> merged[k].id])

\* What makes merge_json_data leave through its except branch: json.load
\* raises, an answer has no 'id' (KeyError), or the sort compares a None id
\* (TypeError; a list of one record is not compared)
MergeRaises(q_file, a_file) ==
  \/ q_file.json = "invalid"
  \/ a_file.json = "invalid"
  \/ \E k \in 1..Len(a_file.v) : "id" \notin DOMAIN a_file.v[k]
  \/ LET questions == LoadQuestions(q_file)
     IN  Len(questions) >= 2 /\ \E k \in 1..Len(questions) : "id" \notin DOMAIN questions[k]

\* merge_json_data(q_file, a_file): the list returned and whether st.error
\* was called
merge_json_data(q_file, a_file) ==
  IF MergeRaises(q_file, a_file) THEN [data |-> <<>>, error |-> TRUE]
  ELSE LET questions == LoadQuestions(q_file)
           merged == [k \in 1..Len(questions) |-> MergedRecord(questions[k], a_file.v)]
       IN  [data |-> SortById(merged), error |-> FALSE]

\* ------------------------------------------------------------------------
\* 3. PDF engine
\* ------------------------------------------------------------------------
\* The flowables handed to the layout library; doc.build itself is external.
\* An options dict is the sequence of its [key, text] items in insertion
\* order; a key is one character.
Paragraph(text, style) == [flowable |-> "Paragraph", text |-> text, style |-> style]
Spacer(height) == [flowable |-> "Spacer", height |-> height]
Table(rows) == [flowable |-> "Table", rows |-> rows]
KeepTogether(blocks) == [flowable |-> "KeepTogether", blocks |-> blocks]

\* The max_chars create_elegant_pdf passes to smart_break_paragraphs
PdfMaxChars == 350

\* str(item['id'])
StrOfId(id) == IF id = None THEN <<"N","o","n","e">> ELSE StrOfInt(id)

\* The order of one-character strings under sorted()
CharOrder == <<"0","1","2","3","4","5","6","7","8","9","A","B","C","D","E","F","G","H","I","J","K","L","M","N","O","P","Q","R","S","T","U","V","W","X","Y","Z","a","b","c","d","e","f","g","h","i","j","k","l","m","n","o","p","q","r","s","t","u","v","w","x","y","z">>
CharRank(c) == CHOOSE i \in 1..Len(CharOrder) : CharOrder[i] = c

\* 1. Meta
MetaBlocks(item) ==
  <<Paragraph(<<"Q">> \o StrOfId(item.id)
              \o (IF item.source # <<>> THEN <<" ","|"," ">> \o item.source ELSE <<>>),
              "style_meta")>>

HasCue(raw_q_text) ==
  \/ StrContains(raw_q_text, <<"M","a","t","c","h">>)
  \/ StrContains(raw_q_text, <<"L","i","s","t">>)
  \/ StrContains(raw_q_text, <<"p","a","i","r","s">>)

\* The last row's right cell goes through clean_table_row
RightCol(table_matches, i) ==
  IF i = Len(table_matches) THEN clean_table_row(StrStrip(table_matches[i][3]))[1]
  ELSE StrStrip(table_matches[i][3])

TableRow(table_matches, i) ==
  <<Paragraph(<<"<","b",">">> \o table_matches[i][1] \o <<".","<","/","b",">"," ">> \o table_matches[i][2],
              "style_table_text"),
    Paragraph(RightCol(table_matches, i), "style_table_text")>>

TableData(table_matches) ==
  << <<Paragraph(<<"<","b",">","I","t","e","m"," ","/"," ","L","i","s","t"," ","I","<","/","b",">">>, "style_table_text"),
       Paragraph(<<"<","b",">","M","a","t","c","h"," ","/"," ","L","i","s","t"," ","I","I","<","/","b",">">>, "style_table_text")>> >>
  \o [i \in 1..Len(table_matches) |-> TableRow(table_matches, i)]

\* The table mode: the intro before the first match, the table, the outro
\* cut off the last right cell
TableBlocks(intro_text, table_matches, outro_text_buffer) ==
  (IF intro_text # <<>>
   THEN <<Paragraph(format_question_text(intro_text), "style_q"), Spacer(4)>>
   ELSE <<>>)
  \o <<Table(TableData(table_matches))>>
  \o (IF outro_text_buffer # <<>>
      THEN <<Spacer(6), Paragraph(<<"<","b",">">> \o outro_text_buffer \o <<"<","/","b",">">>, "style_q")>>
      ELSE <<>>)
  \o <<Spacer(6)>>

LastRight(table_matches) == StrStrip(table_matches[Len(table_matches)][3])

QuestionMode(raw_q_text, table_matches) ==
  IF table_matches # <<>> /\ HasCue(raw_q_text)
  THEN TableBlocks(
         StrStrip(SubSeq(raw_q_text, 1, ReSearch(match_pattern, 3, raw_q_text, 0, FALSE).start)),
         table_matches,
         clean_table_row(LastRight(table_matches))[2])
  ELSE <<Paragraph(format_question_text(raw_q_text), "style_q")>>

\* 2. Question logic: a table of pairs, or the formatted text
QuestionBlocks(item) ==
  QuestionMode(item.question, ReFindAll(match_pattern, 3, item.question, FALSE))

\* Fault: the options in the order of the dict, not sorted
OptionBlocksUnsorted(item) ==
  [k \in 1..Len(item.options) |->
     Paragraph(<<"<","b",">","(">> \o <<item.options[k].key>> \o <<")","<","/","b",">"," ">> \o item.options[k].text,
               "style_opt")]

\* 3. Options, in the sorted order of their keys
OptionBlocks(item) ==
  LET sorted == SortByKey(item.options,
                          [k \in 1..Len(item.options) |-> CharRank(item.options[k].key)])
  IN  [k \in 1..Len(sorted) |->
         Paragraph(<<"<","b",">","(">> \o <<sorted[k].key>> \o <<")","<","/","b",">"," ">> \o sorted[k].text, "style_opt")]

\* 4. Answer
AnswerBlocks(item) == <<Paragraph(<<"C","o","r","r","e","c","t"," ","A","n","s","w","e","r",":"," ">> \o item.answer_key, "style_ans")>>

\* 5. Explanations: what stands before the first ||TIPS|| and what stands
\* between the first and the second
MainExp(raw_full_exp) == StrSplit(raw_full_exp, TIPS)[1]
TipsText(raw_full_exp) ==
  IF StrContains(raw_full_exp, TIPS) THEN StrSplit(raw_full_exp, TIPS)[2] ELSE <<>>

\* smart_highlight(p, user_highlights) if do_highlight else p, for every p
Highlighted(ps, do_highlight, user_highlights) ==
  IF do_highlight THEN [k \in 1..Len(ps) |-> smart_highlight(ps[k], user_highlights)]
  ELSE ps

\* The paragraphs of a text, highlighted when do_highlight is set
Paragraphs(text, do_highlight, user_breaks, user_highlights) ==
  Highlighted(smart_break_paragraphs(text, PdfMaxChars, user_breaks),
              do_highlight, user_highlights)

ExpBox(exp_paragraphs, tips_text, tips_paragraphs) ==
  << <<Paragraph(<<"<","b",">","E","x","p","l","a","n","a","t","i","o","n",":","<","/","b",">">>, "style_opt")>> >>
  \o [k \in 1..Len(exp_paragraphs) |-> <<Paragraph(exp_paragraphs[k], "style_exp")>>]
  \o (IF tips_text # <<>>
      THEN << <<Spacer(4)>>, <<Paragraph(<<"<","b",">","I","m","p","o","r","t","a","n","t"," ","T","i","p","s",":","<","/","b",">">>, "style_tips")>> >>
           \o [k \in 1..Len(tips_paragraphs) |->
                 <<Paragraph(tips_paragraphs[k], "style_tips")>>]
      ELSE <<>>)

ExpBoxContent(item, do_highlight, user_breaks, user_highlights) ==
  ExpBox(Paragraphs(MainExp(item.explanation), do_highlight, user_breaks, user_highlights),
         TipsText(item.explanation),
         Paragraphs(TipsText(item.explanation), do_highlight, user_breaks, user_highlights))

Divider == Paragraph([i \in 1..90 |-> "_"], "style_meta")

\* The body of the loop over data: the blocks of one record
QBlock(item, do_highlight, user_breaks, user_highlights) ==
  MetaBlocks(item)
  \o QuestionBlocks(item)
  \o OptionBlocks(item)
  \o AnswerBlocks(item)
  \o <<Spacer(4),
       Table(ExpBoxContent(item, do_highlight, user_breaks, user_highlights)),
       Spacer(10), Divider, Spacer(10)>>

\* The story create_elegant_pdf hands to doc.build: title, subtitle, spacer,
\* then one KeepTogether per record.  (The subtitle's bullet glyph is written *.)
create_elegant_pdf(data, booklet_title, do_highlight, user_breaks, user_highlights) ==
  <<Paragraph(<<"<","b",">">> \o booklet_title \o <<"<","/","b",">">>, "Title"),
    Paragraph(<<"G","e","n","e","r","a","t","e","d"," ","o","n"," ","S","t","r","e","a","m","l","i","t"," ","*"," ">> \o StrOfInt(Len(data)) \o <<" ","Q","u","e","s","t","i","o","n","s">>, "Normal"),
    Spacer(20)>>
  \o [k \in 1..Len(data) |->
        KeepTogether(QBlock(data[k], do_highlight, user_breaks, user_highlights))]

\* ------------------------------------------------------------------------
\* 4. Streamlit UI: the script, rerun on every interaction
\* ------------------------------------------------------------------------
VARIABLES
  q_file,             \* the questions upload: NoFile or a file
  a_file,             \* the answers upload
  booklet_title,      \* sidebar: "Booklet Title"
  highlight_enabled,  \* sidebar: "Enable Smart Highlighting?"
  break_input,        \* sidebar: "Force Paragraph Break at:"
  highlight_input,    \* sidebar: "Highlight Keywords:"
  section_input,      \* "Enter Section Name"
  session_state,      \* st.session_state: processed_data, pdf_bytes, json_bytes
  st_error,           \* whether this run of the script called st.error
  merged_data,        \* what merge_json_data returned
  pdf_bytes,          \* what create_elegant_pdf returned (its story)
  text,               \* the text given to smart_break_paragraphs or smart_highlight
  max_chars,          \* max_chars of smart_break_paragraphs
  keys,               \* user_break_keys or user_highlight_keys
  result,             \* what the text function returned
  last_run,           \* history: how the latest Generate run ended
  last_ok,            \* history: the inputs of the latest run that stored its result
  question_form,      \* history: the intro and items a match question was written from
  pc

vars ==
  <<q_file, a_file, booklet_title, highlight_enabled, break_input, highlight_input,
    section_input, session_state, st_error, merged_data, pdf_bytes, text, max_chars,
    keys, result, last_run, last_ok, question_form, pc>>

widgets ==
  <<booklet_title, highlight_enabled, break_input, highlight_input, section_input>>
uploads == <<q_file, a_file>>
call_vars == <<text, max_chars, keys, result>>
history == <<last_run, last_ok, question_form>>

NoFile == [json |-> "none"]

\* [x.strip() for x in input.split(',')] if input else []
UserList(input) ==
  IF input = <<>> THEN <<>>
  ELSE LET parts == StrSplit(input, <<",">>)
       IN  [k \in 1..Len(parts) |-> StrStrip(parts[k])]

user_breaks == UserList(break_input)
user_highlights == UserList(highlight_input)

\* The JSON document of the download: its text is json.dumps of this value
FinalJsonStructure(section, data) == [section |-> section, questions |-> data]

\* st.session_state before the first successful run: all three are None
\* (written as an empty list, an empty story, an empty document)
NoSessionState ==
  [processed_data |-> <<>>, pdf_bytes |-> <<>>, json_bytes |-> FinalJsonStructure(<<>>, <<>>)]

\* Fault: the session state written whatever the merge returned
StoreResultAlways(old, data, pdf, json) ==
  [processed_data |-> data, pdf_bytes |-> pdf, json_bytes |-> json]

\* 4. Store in session state: only inside `if merged_data:`
StoreResult(old, data, pdf, json) ==
  IF data # <<>> THEN [processed_data |-> data, pdf_bytes |-> pdf, json_bytes |-> json]
  ELSE old

\* re.sub(r'[^\w\s-]', '', booklet_title).strip().replace(' ', '_'), or quiz_data
SafeTitle(title) ==
  LET kept == SelectSeq(title, LAMBDA c : c \in WordChars \cup Whitespace \cup {"-"})
      safe == StrReplace(StrStrip(kept), <<" ">>, <<"_">>)
  IN  IF safe = <<>> THEN <<"q","u","i","z","_","d","a","t","a">> ELSE safe

\* The download buttons the script shows at its end
DownloadsOffered == session_state.processed_data # <<>>
Downloads ==
  [pdf |-> [data |-> session_state.pdf_bytes,
            file_name |-> SafeTitle(booklet_title) \o <<".","p","d","f">>],
   json |-> [data |-> session_state.json_bytes,
             file_name |-> SafeTitle(booklet_title) \o <<".","j","s","o","n">>]]

\* "Generate Booklet" clicked: merge, and if the merge gave records, build
\* the PDF and the JSON and store them
ClickGenerate ==
  /\ pc = "ui"
  /\ q_file # NoFile /\ a_file # NoFile
  /\ LET m == merge_json_data(q_file, a_file)
         pdf == create_elegant_pdf(m.data, booklet_title, highlight_enabled,
                                   user_breaks, user_highlights)
         json == FinalJsonStructure(section_input, m.data)
     IN  /\ session_state' = StoreResult(session_state, m.data, pdf, json)
         /\ st_error' = m.error
         /\ last_run' = IF m.data # <<>> THEN "stored" ELSE "nothing"
         /\ last_ok' = IF m.data # <<>>
                       THEN [q_file |-> q_file, a_file |-> a_file,
                             booklet_title |-> booklet_title,
                             highlight_enabled |-> highlight_enabled,
                             break_input |-> break_input,
                             highlight_input |-> highlight_input,
                             section_input |-> section_input]
                       ELSE last_ok
  /\ UNCHANGED <<uploads, widgets, merged_data, pdf_bytes, call_vars, question_form, pc>>

\* Any other interaction reruns the script without the button: nothing is
\* merged, the widgets keep their new values
Rerun ==
  /\ pc = "ui"
  /\ st_error' = FALSE
  /\ UNCHANGED <<session_state, merged_data, pdf_bytes, call_vars, history, pc>>

UploadQuestions(f) == Rerun /\ q_file' = f /\ UNCHANGED <<a_file, widgets>>
UploadAnswers(f) == Rerun /\ a_file' = f /\ UNCHANGED <<q_file, widgets>>
SetTitle(t) ==
  /\ Rerun /\ booklet_title' = t
  /\ UNCHANGED <<uploads, highlight_enabled, break_input, highlight_input, section_input>>
ToggleHighlight ==
  /\ Rerun /\ highlight_enabled' = ~highlight_enabled
  /\ UNCHANGED <<uploads, booklet_title, break_input, highlight_input, section_input>>
SetSection(s) ==
  /\ Rerun /\ section_input' = s
  /\ UNCHANGED <<uploads, booklet_title, highlight_enabled, break_input, highlight_input>>

SetBreaks(b) ==
  /\ Rerun /\ break_input' = b
  /\ UNCHANGED <<uploads, booklet_title, highlight_enabled, highlight_input, section_input>>
SetHighlights(h) ==
  /\ Rerun /\ highlight_input' = h
  /\ UNCHANGED <<uploads, booklet_title, highlight_enabled, break_input, section_input>>

\* ------------------------------------------------------------------------
\* The functions called on their own
\* ------------------------------------------------------------------------
MergeJsonData ==
  /\ pc = "merge"
  /\ LET m == merge_json_data(q_file, a_file)
     IN  merged_data' = m.data /\ st_error' = m.error
  /\ pc' = "merged"
  /\ UNCHANGED <<uploads, widgets, session_state, pdf_bytes, call_vars, history>>

CreateElegantPdf ==
  /\ pc = "pdf"
  /\ pdf_bytes' = create_elegant_pdf(merged_data, booklet_title, highlight_enabled,
                                     user_breaks, user_highlights)
  /\ pc' = "built"
  /\ UNCHANGED <<uploads, widgets, session_state, st_error, merged_data, call_vars, history>>

SmartBreakParagraphs ==
  /\ pc = "break"
  /\ result' = smart_break_paragraphs(text, max_chars, keys)
  /\ pc' = "broken"
  /\ UNCHANGED <<uploads, widgets, session_state, st_error, merged_data, pdf_bytes,
                 text, max_chars, keys, history>>

SmartHighlight ==
  /\ pc = "highlight"
  /\ result' = smart_highlight(text, keys)
  /\ pc' = "highlighted"
  /\ UNCHANGED <<uploads, widgets, session_state, st_error, merged_data, pdf_bytes,
                 text, max_chars, keys, history>>

\* ------------------------------------------------------------------------
\* Inputs and specifications
\* ------------------------------------------------------------------------
MaxQuestions == 3
MaxAnswers == 2
MaxId == 2
MaxLabelLen == 3
MaxSecondaryLen == 1
MaxPieces == 3
MaxItems == 2
MaxRecords == 2
MaxSentences == 4
MaxMaxChars == 4
MaxWords == 3

SeqsUpTo(S, n) == UNION {[1..k -> S] : k \in 0..n}

DefaultTitle == <<"C","o","m","p","r","e","h","e","n","s","i","v","e"," ","Q","u","i","z"," ","B","o","o","k","l","e","t">>

DefaultWidgets ==
  /\ booklet_title = DefaultTitle
  /\ highlight_enabled = TRUE
  /\ break_input = <<>>
  /\ highlight_input = <<>>
  /\ section_input = <<>>

NoLastOk ==
  [q_file |-> NoFile, a_file |-> NoFile, booklet_title |-> <<>>,
   highlight_enabled |-> FALSE, break_input |-> <<>>, highlight_input |-> <<>>,
   section_input |-> <<>>]

NoForm == [intro |-> <<>>, items |-> <<>>]

NoSession ==
  /\ session_state = NoSessionState
  /\ st_error = FALSE
  /\ last_run = "none"
  /\ last_ok = NoLastOk

NoCall == text = <<>> /\ max_chars = 0 /\ keys = <<>> /\ result = <<>>
NoPdf == merged_data = <<>> /\ pdf_bytes = <<>> /\ question_form = NoForm
NoUploads == q_file = NoFile /\ a_file = NoFile

ListFile(v) == [json |-> "list", v |-> v]
DictFile(v) == [json |-> "dict", v |-> v]
InvalidFile == [json |-> "invalid"]

\* --- merge_json_data on question and answer collections -------------------
QText == <<"Q">>
QuestionObjs ==
  {[id |-> i, question |-> QText] : i \in 1..MaxId} \cup {[question |-> QText]}
AnswerObjs ==
  {[id |-> i, solution |-> <<"(","b",")">>, explanation |-> [str |-> <<"x">>]] : i \in 1..MaxId}
  \cup {[solution |-> <<"(","b",")">>, explanation |-> [str |-> <<"x">>]]}

QuestionFiles ==
  {InvalidFile}
  \cup {ListFile(qs) : qs \in SeqsUpTo(QuestionObjs, MaxQuestions)}
  \cup {DictFile([questions |-> qs]) : qs \in SeqsUpTo(QuestionObjs, MaxQuestions)}
  \cup {DictFile([items |-> qs]) : qs \in SeqsUpTo(QuestionObjs, MaxQuestions)}
AnswerFiles ==
  {InvalidFile} \cup {ListFile(ans) : ans \in SeqsUpTo(AnswerObjs, MaxAnswers)}

InitMerge ==
  /\ q_file \in QuestionFiles
  /\ a_file \in AnswerFiles
  /\ DefaultWidgets /\ NoSession /\ NoCall /\ NoPdf
  /\ pc = "merge"

SpecMerge == InitMerge /\ [][MergeJsonData]_vars

\* --- merge_json_data on the answer label of one question ------------------
LabelChars == {"(", ")", " ", "b", "B", "c"}
OneQuestion == ListFile(<<[id |-> 1, question |-> QText]>>)
LabelAnswers ==
  {[id |-> 1]}
  \cup {[id |-> 1, solution |-> s] : s \in SeqsUpTo(LabelChars, MaxLabelLen)}
  \cup {[id |-> 1, answer |-> a] : a \in SeqsUpTo(LabelChars, MaxSecondaryLen)}
  \cup {[id |-> 1, solution |-> s, answer |-> a] :
          s \in SeqsUpTo(LabelChars, MaxLabelLen), a \in SeqsUpTo(LabelChars, MaxSecondaryLen)}

InitLabel ==
  /\ q_file = OneQuestion
  /\ a_file \in {ListFile(<<a>>) : a \in LabelAnswers}
  /\ DefaultWidgets /\ NoSession /\ NoCall /\ NoPdf
  /\ pc = "merge"

SpecLabel == InitLabel /\ [][MergeJsonData]_vars

\* --- Generate on one question with an explanation -------------------------
ExpPieces == {<<"a">>, <<" ">>, TIPS}
ExpStrings == {StrConcat(ps) : ps \in SeqsUpTo(ExpPieces, MaxPieces)}
ExpValues ==
  {[str |-> s] : s \in ExpStrings}
  \cup {[dict |-> [exp_details |-> d]] : d \in ExpStrings}
  \cup {[dict |-> [important_tips |-> t]] : t \in ExpStrings}
  \cup {[dict |-> [exp_details |-> d, important_tips |-> t]] : d \in ExpStrings, t \in ExpStrings}

InitExplain ==
  /\ q_file = OneQuestion
  /\ a_file \in {ListFile(<<[id |-> 1, solution |-> <<"a">>, explanation |-> e]>>) : e \in ExpValues}
  /\ booklet_title = DefaultTitle
  /\ highlight_enabled \in BOOLEAN
  /\ break_input = <<>> /\ highlight_input = <<>> /\ section_input = <<>>
  /\ NoSession /\ NoCall /\ NoPdf
  /\ pc = "ui"

SpecExplain == InitExplain /\ [][ClickGenerate]_vars

\* --- create_elegant_pdf on one match-the-pairs question -------------------
Intros == {<<"M","a","t","c","h"," ","L","i","s","t"," ","I"," ","w","i","t","h"," ","L","i","s","t"," ","I","I",".">>, <<"M","a","t","c","h"," ","t","h","e"," ","p","a","i","r","s">>, <<"M","a","t","c","h"," ","t","h","e"," ","f","o","l","l","o","w","i","n","g"," ","p","a","i","r","s",":">>}
Markers == {<<"I">>, <<"I","I">>, <<"1">>, <<"A">>}
Lefts == {<<"A","l","p","h","a">>, <<"G","a","m","m","a">>}
Rights == {<<"B","e","t","a">>, <<"D","e","l","t","a">>}
PairItems == {[marker |-> m, left |-> l, right |-> r] : m \in Markers, l \in Lefts, r \in Rights}
Forms ==
  {[intro |-> i, items |-> it] :
     i \in Intros, it \in SeqsUpTo(PairItems, MaxItems) \ {<<>>}}

\* <intro> <marker>. <left> - <right> <marker>. <left> - <right> ...
RECURSIVE ItemsText(_)
ItemsText(items) ==
  IF items = <<>> THEN <<>>
  ELSE <<" ">> \o Head(items).marker \o <<"."," ">> \o Head(items).left \o <<" ","-"," ">>
       \o Head(items).right \o ItemsText(Tail(items))
MatchQuestion(form) == form.intro \o ItemsText(form.items)

RecordOf(id, question, options, explanation) ==
  [id |-> id, question |-> question, options |-> options, source |-> <<>>,
   answer_key |-> <<"A">>, explanation |-> explanation]

InitTable ==
  /\ question_form \in Forms
  /\ merged_data = <<RecordOf(1, MatchQuestion(question_form), <<>>, NoExplanation)>>
  /\ pdf_bytes = <<>>
  /\ NoUploads /\ DefaultWidgets /\ NoSession /\ NoCall
  /\ pc = "pdf"

SpecTable == InitTable /\ [][CreateElegantPdf]_vars

\* --- create_elegant_pdf on a list of records -------------------------------
PlainQuestion == <<"W","h","a","t"," ","i","s"," ","i","t","?">>
TableQuestion == <<"M","a","t","c","h"," ","t","h","e"," ","p","a","i","r","s"," ","I","."," ","A","l","p","h","a"," ","-"," ","B","e","t","a"," ","I","I","."," ","G","a","m","m","a"," ","-"," ","D","e","l","t","a">>
OutroQuestion == <<"M","a","t","c","h"," ","t","h","e"," ","p","a","i","r","s"," ","A","."," ","A","l","p","h","a"," ","-"," ","B","e","t","a"," ","W","h","i","c","h"," ","o","f"," ","t","h","e","s","e"," ","i","s"," ","r","i","g","h","t","?">>
SortedOptions == <<[key |-> "a", text |-> <<"X">>], [key |-> "b", text |-> <<"Y">>]>>
UnsortedOptions ==
  <<[key |-> "c", text |-> <<"Z">>], [key |-> "a", text |-> <<"X">>], [key |-> "b", text |-> <<"Y">>]>>
WithTips == <<"M","a","i","n"," ","o","n","e","."," ","|","|","T","I","P","S","|","|"," ","T","i","p"," ","o","n","e",".">>
RecordShapes ==
  { RecordOf(1, PlainQuestion, <<>>, NoExplanation),
    RecordOf(2, PlainQuestion, UnsortedOptions, WithTips),
    RecordOf(3, TableQuestion, SortedOptions, <<"M","a","i","n"," ","o","n","e",".">>),
    RecordOf(4, TableQuestion, UnsortedOptions, WithTips),
    RecordOf(5, OutroQuestion, <<>>, WithTips),
    [RecordOf(None, PlainQuestion, SortedOptions, WithTips) EXCEPT !.source = <<"S","r","c">>] }

InitPdf ==
  /\ merged_data \in SeqsUpTo(RecordShapes, MaxRecords)
  /\ pdf_bytes = <<>> /\ question_form = NoForm
  /\ NoUploads /\ NoSession /\ NoCall
  /\ booklet_title = DefaultTitle
  /\ highlight_enabled \in BOOLEAN
  /\ break_input = <<>> /\ highlight_input = <<>> /\ section_input = <<>>
  /\ pc = "pdf"

SpecPdf == InitPdf /\ [][CreateElegantPdf]_vars

\* --- smart_break_paragraphs on short texts --------------------------------
SentencePieces == {<<"a","."," ">>, <<"b","b","!"," ">>, <<"-"," ">>}
SplitTexts == {StrConcat(ps) : ps \in SeqsUpTo(SentencePieces, MaxSentences)}
SplitKeys == {<<>>, <<<<"b","b">>>>}

InitSplit ==
  /\ text \in SplitTexts
  /\ max_chars \in 1..MaxMaxChars
  /\ keys \in SplitKeys
  /\ result = <<>>
  /\ NoUploads /\ DefaultWidgets /\ NoSession /\ NoPdf
  /\ pc = "break"

SpecSplit == InitSplit /\ [][SmartBreakParagraphs]_vars

\* --- smart_highlight on short texts ----------------------------------------
Words == {<<"A","c","t"," ","1","9","3","5">>, <<"a","c","t"," ","1","9","3","5">>, <<"S","u","p","r","e","m","e"," ","C","o","u","r","t">>, <<"i","n">>, <<"1","9","3","5">>}
RECURSIVE JoinWords(_)
JoinWords(ws) ==
  IF ws = <<>> THEN <<>>
  ELSE IF Len(ws) = 1 THEN Head(ws)
  ELSE Head(ws) \o <<" ">> \o JoinWords(Tail(ws))
HighlightTexts == {JoinWords(ws) : ws \in SeqsUpTo(Words, MaxWords) \ {<<>>}}
HighlightKeys == {<<<<"A","c","t"," ","1","9","3","5">>>>, <<<<"S","u","p","r","e","m","e"," ","C","o","u","r","t">>>>, <<<<"i","n">>>>}

InitHighlight ==
  /\ text \in HighlightTexts
  /\ keys \in HighlightKeys
  /\ max_chars = 0 /\ result = <<>>
  /\ NoUploads /\ DefaultWidgets /\ NoSession /\ NoPdf
  /\ pc = "highlight"

SpecHighlight == InitHighlight /\ [][SmartHighlight]_vars

\* --- the script under the user's interactions ------------------------------
UIQuestionFiles == {OneQuestion, ListFile(<<>>), InvalidFile}
UIAnswerFiles ==
  {ListFile(<<[id |-> 1, solution |-> <<"a">>, explanation |-> [str |-> <<"x">>]]>>)}
Titles == {DefaultTitle, <<"T"," ","2">>}
Sections == {<<>>, <<"S">>}
BreakInputs == {<<>>, <<"x">>}
HighlightInputs == {<<>>, <<"x">>}

InitUI ==
  /\ NoUploads /\ DefaultWidgets /\ NoSession /\ NoCall /\ NoPdf
  /\ pc = "ui"

NextUI ==
  \/ \E f \in UIQuestionFiles : UploadQuestions(f)
  \/ \E f \in UIAnswerFiles : UploadAnswers(f)
  \/ \E t \in Titles : SetTitle(t)
  \/ ToggleHighlight
  \/ \E s \in Sections : SetSection(s)
  \/ \E b \in BreakInputs : SetBreaks(b)
  \/ \E h \in HighlightInputs : SetHighlights(h)
  \/ ClickGenerate

SpecUI == InitUI /\ [][NextUI]_vars

\* ------------------------------------------------------------------------
\* Properties of merge_json_data
\* ------------------------------------------------------------------------
Questions == LoadQuestions(q_file)
QId(q) == Get(q, "id", None)

\* What the input itself has wrong: a file that does not parse, an answer
\* without id, a question without id among two or more
InputFault ==
  \/ q_file.json = "invalid"
  \/ a_file.json = "invalid"
  \/ \E j \in 1..Len(a_file.v) : "id" \notin DOMAIN a_file.v[j]
  \/ Len(Questions) >= 2 /\ \E k \in 1..Len(Questions) : "id" \notin DOMAIN Questions[k]

\* C1: a question whose id has no entry among the answers still gets its
\* record, with answer_key "N/A" and explanation "No explanation provided.";
\* the merge does not fail and loses no record over it: an error is always
\* due to the input itself (unparseable file, answer without id, a question
\* without id among several)
C1_MissingAnswerDefaults ==
  pc = "merged" =>
    /\ st_error => InputFault
    /\ ~st_error =>
         /\ Len(merged_data) = Len(Questions)
         /\ \A k \in 1..Len(Questions) :
              (\A j \in 1..Len(a_file.v) : a_file.v[j]["id"] # QId(Questions[k]))
              => \E r \in 1..Len(merged_data) :
                   /\ merged_data[r].id = QId(Questions[k])
                   /\ merged_data[r].question = Questions[k]["question"]
                   /\ merged_data[r].answer_key = <<"N","/","A">>
                   /\ merged_data[r].explanation = <<"N","o"," ","e","x","p","l","a","n","a","t","i","o","n"," ","p","r","o","v","i","d","e","d",".">>

\* Two questions merged, one with its answer and one without
C1_Witness ==
  /\ pc = "merged" /\ ~st_error
  /\ Len(Questions) = 2 /\ Len(a_file.v) = 1
  /\ QId(Questions[1]) = a_file.v[1]["id"]
  /\ QId(Questions[2]) # a_file.v[1]["id"]
  /\ \E r \in 1..Len(merged_data) : merged_data[r].answer_key = <<"N","/","A">>
  /\ \E r \in 1..Len(merged_data) : merged_data[r].answer_key = <<"B">>

\* C2: malformed input is all or nothing: when a file does not parse or a
\* question has no id, the merge reports an error and returns the empty
\* list, never a list with a record whose id is missing
C2_AllOrNothing ==
  pc = "merged" =>
    /\ (q_file.json = "invalid" \/ a_file.json = "invalid"
          \/ \E k \in 1..Len(Questions) : "id" \notin DOMAIN Questions[k])
       => st_error /\ merged_data = <<>>
    /\ \A r \in 1..Len(merged_data) : merged_data[r].id # None

\* C3: a successful merge returns the records in ascending order of id, one
\* per question: the same ids as the questions, each as often
C3_SortedSameIds ==
  (pc = "merged" /\ ~st_error) =>
    /\ Len(merged_data) = Len(Questions)
    /\ \A i, j \in 1..Len(merged_data) : i < j => merged_data[i].id <= merged_data[j].id
    /\ \A id \in {None} \cup (1..MaxId) :
         Cardinality({r \in 1..Len(merged_data) : merged_data[r].id = id})
           = Cardinality({k \in 1..Len(Questions) : QId(Questions[k]) = id})

\* Three questions given out of order, with a repeated id
C3_Witness ==
  /\ pc = "merged" /\ ~st_error
  /\ Len(Questions) = 3
  /\ QId(Questions[1]) > QId(Questions[2])
  /\ QId(Questions[3]) = QId(Questions[1])
  /\ Len(merged_data) = 3

\* --- the answer label of the one question of SpecLabel ---------------------
Answer == a_file.v[1]
NoParens(s) == SelectSeq(s, LAMBDA c : c \notin {"(", ")"})
Label(raw) == StrUpper(StrStrip(NoParens(raw)))

\* C4 as amended: the label is the primary field 'solution', the secondary
\* field 'answer' when the primary is absent or empty, "N/A" when the
\* secondary is absent or empty too; the answer_key is that value with every
\* parenthesis removed, then trimmed, then uppercased
C4_LabelFallsBackWhenEmpty ==
  pc = "merged" =>
    /\ merged_data[1].answer_key =
         Label(IF "solution" \in DOMAIN Answer /\ Answer["solution"] # <<>>
               THEN Answer["solution"]
               ELSE IF "answer" \in DOMAIN Answer /\ Answer["answer"] # <<>>
               THEN Answer["answer"]
               ELSE <<"N","/","A">>)
    /\ ("solution" \in DOMAIN Answer
          /\ Answer["solution"] \in {<<"(","B",")">>, <<" ","b"," ">>, <<"b">>, <<"(","b",")">>})
       => merged_data[1].answer_key = <<"B">>
    /\ ("solution" \in DOMAIN Answer /\ Answer["solution"] = <<"c">>)
       => merged_data[1].answer_key = <<"C">>

\* An empty primary field beside a secondary field: the secondary is taken
C4_Witness ==
  /\ pc = "merged"
  /\ "solution" \in DOMAIN Answer /\ Answer["solution"] = <<>>
  /\ "answer" \in DOMAIN Answer /\ Answer["answer"] = <<"c">>
  /\ merged_data[1].answer_key = <<"C">>

\* C4 as stated: the secondary field is read only if the primary is absent,
\* "N/A" only if both are absent
C4_LabelFallsBackOnlyWhenAbsent ==
  pc = "merged" =>
    merged_data[1].answer_key =
      Label(IF "solution" \in DOMAIN Answer THEN Answer["solution"]
            ELSE IF "answer" \in DOMAIN Answer THEN Answer["answer"]
            ELSE <<"N","/","A">>)

\* ------------------------------------------------------------------------
\* Properties of the explanation, from the answer file to the PDF
\* ------------------------------------------------------------------------
\* The explanation box of the one record of the stored PDF: the only table
\* among the blocks of a plain question
StoredBlocks == session_state.pdf_bytes[4].blocks
BoxRows ==
  StoredBlocks[CHOOSE k \in 1..Len(StoredBlocks) : StoredBlocks[k].flowable = "Table"].rows
TextsOfStyle(rows, style) ==
  LET hits == SelectSeq(rows, LAMBDA r : r[1].flowable = "Paragraph" /\ r[1].style = style)
  IN  [k \in 1..Len(hits) |-> hits[k][1].text]
MainRecovered == TextsOfStyle(BoxRows, "style_exp")
\* without the heading "Important Tips:"
TipsRecovered ==
  LET ts == TextsOfStyle(BoxRows, "style_tips")
  IN  IF ts = <<>> THEN <<>> ELSE Tail(ts)

SuppliedExp == a_file.v[1]["explanation"]
SuppliedMain ==
  IF "dict" \in DOMAIN SuppliedExp THEN Get(SuppliedExp.dict, "exp_details", <<>>)
  ELSE SuppliedExp.str
SuppliedTips ==
  IF "dict" \in DOMAIN SuppliedExp THEN Get(SuppliedExp.dict, "important_tips", <<>>)
  ELSE <<>>

\* C5: the main explanation and the tips the PDF shows are the ones the
\* answer file supplied, up to surrounding whitespace: (D, T) of a structured
\* explanation, (S, no tips) of a plain string, whatever D, T and S contain
C5_ExplanationRecovered ==
  last_run = "stored" =>
    /\ MainRecovered = Paragraphs(SuppliedMain, highlight_enabled, user_breaks, user_highlights)
    /\ TipsRecovered = Paragraphs(SuppliedTips, highlight_enabled, user_breaks, user_highlights)

\* ------------------------------------------------------------------------
\* Properties of create_elegant_pdf
\* ------------------------------------------------------------------------
Tag(b) == IF b.flowable = "Paragraph" THEN b.style ELSE b.flowable
Tags(blocks) == [k \in 1..Len(blocks) |-> Tag(blocks[k])]
NoSpacers(tags) == SelectSeq(tags, LAMBDA t : t # "Spacer")
Repeat(t, n) == [k \in 1..n |-> t]
IndexOfTag(blocks, tag) == CHOOSE k \in 1..Len(blocks) : Tag(blocks[k]) = tag

\* The tables of a group that stand before its answer line
QuestionTables(blocks) ==
  {k \in 1..(IndexOfTag(blocks, "style_ans") - 1) : blocks[k].flowable = "Table"}

\* The row the table is to show for an item <marker>. <left> - <right>
ItemRow(it) ==
  <<Paragraph(<<"<","b",">">> \o it.marker \o <<".","<","/","b",">"," ">> \o it.left, "style_table_text"),
    Paragraph(it.right, "style_table_text")>>

\* C6: a question made of an intro with a cue word and n >= 1 items
\* "<marker>. <left> - <right>" is rendered as one table with exactly n data
\* rows under the header row, the i-th being (marker_i, left_i, right_i)
C6_TableRows ==
  pc = "built" =>
    LET blocks == pdf_bytes[4].blocks
        items == question_form.items
    IN  /\ Cardinality(QuestionTables(blocks)) = 1
        /\ LET rows == blocks[CHOOSE k \in QuestionTables(blocks) : TRUE].rows
           IN  /\ Len(rows) = Len(items) + 1
               /\ \A i \in 1..Len(items) : rows[i + 1] = ItemRow(items[i])

\* The shapes of the question part of a group, spacers left out: the plain
\* text, or the table with its intro and outro where there are any
QuestionShapes ==
  { <<"style_q">>, <<"Table">>, <<"style_q", "Table">>, <<"Table", "style_q">>,
    <<"style_q", "Table", "style_q">> }

OptionLine(o) == <<"<","b",">","(">> \o <<o.key>> \o <<")","<","/","b",">"," ">> \o o.text

\* The texts of the option lines of a group, in their order
OptionTexts(blocks) ==
  LET opts == SelectSeq(blocks, LAMBDA b : Tag(b) = "style_opt")
  IN  [k \in 1..Len(opts) |-> opts[k].text]

HasTips(item) ==
  LET parts == StrSplit(item.explanation, TIPS)
  IN  Len(parts) > 1 /\ parts[2] # <<>>

\* The rows of the explanation box: the heading, the main paragraphs, then
\* the tips heading and the tips paragraphs only when there are tips
BoxInOrder(rows, item) ==
  LET tags == NoSpacers([k \in 1..Len(rows) |-> Tag(rows[k][1])])
  IN  /\ \A k \in 1..Len(rows) : Len(rows[k]) = 1
      /\ rows[1][1].text = <<"<","b",">","E","x","p","l","a","n","a","t","i","o","n",":","<","/","b",">">>
      /\ \E m, p \in 0..Len(rows) :
           tags = <<"style_opt">> \o Repeat("style_exp", m)
                  \o (IF HasTips(item) THEN Repeat("style_tips", p + 1) ELSE <<>>)
      /\ HasTips(item) =>
           \E k \in 1..Len(rows) :
             /\ Tag(rows[k][1]) = "style_tips"
             /\ rows[k][1].text = <<"<","b",">","I","m","p","o","r","t","a","n","t"," ","T","i","p","s",":","<","/","b",">">>
             /\ \A j \in 1..(k - 1) : Tag(rows[j][1]) # "style_tips"

\* The blocks of one group, in the fixed order
GroupInOrder(blocks, item) ==
  LET opts == OptionTexts(blocks)
      ans == IndexOfTag(blocks, "style_ans")
  IN  /\ \E q \in QuestionShapes :
           NoSpacers(Tags(blocks))
             = <<"style_meta">> \o q \o Repeat("style_opt", Len(item.options))
               \o <<"style_ans", "Table", "style_meta">>
      /\ StartsAt(blocks[1].text, <<"Q">> \o StrOfId(item.id), 0)
      /\ \A i, j \in 1..Len(opts) : i < j => CharRank(opts[i][5]) < CharRank(opts[j][5])
      /\ {opts[k] : k \in 1..Len(opts)}
           = {OptionLine(item.options[k]) : k \in 1..Len(item.options)}
      /\ blocks[ans].text = <<"C","o","r","r","e","c","t"," ","A","n","s","w","e","r",":"," ">> \o item.answer_key
      /\ BoxInOrder(blocks[ans + 2].rows, item)
      /\ blocks[Len(blocks) - 1].text = [i \in 1..90 |-> "_"]

\* C7: after the title, the subtitle and a spacer the story has exactly one
\* keep-together group per record, in the order of the records, and the
\* blocks of a group are, in this order: the metadata line, the question
\* (table or plain text), the option lines sorted by label, the answer line,
\* the explanation box (main paragraphs, then the tips only when there are
\* tips), the divider; nothing of a record stands outside its group
C7_OneGroupPerRecord ==
  pc = "built" =>
    /\ Len(pdf_bytes) = 3 + Len(merged_data)
    /\ Tags(SubSeq(pdf_bytes, 1, 3)) = <<"Title", "Normal", "Spacer">>
    /\ \A k \in 1..Len(merged_data) :
         /\ pdf_bytes[3 + k].flowable = "KeepTogether"
         /\ GroupInOrder(pdf_bytes[3 + k].blocks, merged_data[k])

\* Two records: a table question with unsorted options and tips, then a
\* plain question without options or tips
C7_Witness ==
  /\ pc = "built"
  /\ Len(merged_data) = 2
  /\ merged_data[1] = RecordOf(4, TableQuestion, UnsortedOptions, WithTips)
  /\ merged_data[2] = RecordOf(1, PlainQuestion, <<>>, NoExplanation)
  /\ Len(pdf_bytes) = 5

\* ------------------------------------------------------------------------
\* Properties of smart_highlight
\* ------------------------------------------------------------------------
\* K stands in s right after its first p characters, whatever the case
OccursAt(s, K, p) ==
  /\ p + Len(K) <= Len(s)
  /\ \A j \in 1..Len(K) : ToLower(s[p + j]) = ToLower(K[j])

\* C8: every occurrence of a user keyword in the text, in whatever case,
\* comes out wrapped as a whole in <b>...</b>, also when the keyword holds a
\* built-in span such as a four-digit year
C8_KeywordWrapped ==
  pc = "highlighted" =>
    \A k \in 1..Len(keys) : \A p \in 0..Len(text) :
      OccursAt(text, keys[k], p)
      => StrContains(result,
                     <<"<","b",">">> \o SubSeq(text, p + 1, p + Len(keys[k])) \o <<"<","/","b",">">>)

\* ------------------------------------------------------------------------
\* Properties of smart_break_paragraphs
\* ------------------------------------------------------------------------
\* The sentences of a segment
Sentences(segment) == ReSplit(sentence_end, segment)

\* The running chunk over the sentences a..b: each with one space after it
Chunk(S, a, b) == StrConcat([k \in 1..(b - a + 1) |-> S[a + k - 1] \o <<" ">>])

\* Where the paragraph that ends with sentence b starts, given the set C of
\* the sentences that close a paragraph
StartOf(C, b) ==
  LET before == {c \in C : c < b}
  IN  IF before = {} THEN 1 ELSE Max(before) + 1

\* A paragraph is closed at b exactly when the running chunk first exceeds
\* max_chars there; what is left after the last closing never exceeds it
ClosedWhenExceeded(S, C, max) ==
  /\ \A b \in C :
       /\ Len(Chunk(S, StartOf(C, b), b)) > max
       /\ \A e \in StartOf(C, b)..(b - 1) : Len(Chunk(S, StartOf(C, b), e)) <= max
  /\ Len(S) \notin C =>
       \A e \in StartOf(C, Len(S))..Len(S) : Len(Chunk(S, StartOf(C, Len(S)), e)) <= max

\* The paragraphs that the closing sentences C make of the sentences S: every
\* sentence once, in order, whole
ParagraphsOf(S, C) ==
  LET ends == C \cup {Len(S)}
      EndNo(i) == CHOOSE b \in ends : Cardinality({c \in ends : c <= b}) = i
  IN  [i \in 1..Cardinality(ends) |-> StrStrip(Chunk(S, StartOf(C, EndNo(i)), EndNo(i)))]

Closings(S, max) == {C \in SUBSET (1..Len(S)) : ClosedWhenExceeded(S, C, max)}

\* What the sentences S of a long segment are to give
ByClosing(S, max) == ParagraphsOf(S, CHOOSE C \in Closings(S, max) : TRUE)

\* What one segment, stripped, is to give
Reflowed(segment, max) ==
  IF segment = <<>> THEN <<>>
  ELSE IF Len(segment) < max THEN <<segment>>
  ELSE ByClosing(Sentences(segment), max)

OneClosing(S, max) == Cardinality(Closings(S, max)) = 1

ReflowedAll(segments, max) ==
  /\ \A k \in 1..Len(segments) :
       Len(StrStrip(segments[k])) >= max => OneClosing(Sentences(StrStrip(segments[k])), max)
  /\ result = StrConcat([k \in 1..Len(segments) |-> Reflowed(StrStrip(segments[k]), max)])
  /\ \A k \in 1..Len(result) : result[k] # <<>>

\* C9: a segment shorter than max_chars comes out unchanged as one
\* paragraph; a segment of max_chars or more comes out as paragraphs of whole
\* consecutive sentences in their order, none dropped, repeated or cut, a
\* paragraph being closed exactly when the running chunk (each sentence with
\* one space after it) first exceeds max_chars and the rest flushed at the
\* end; no paragraph is empty
C9_ReflowBySentences ==
  pc = "broken" => ReflowedAll(RawSegments(text, keys), max_chars)

\* A segment of three sentences cut into two paragraphs, the first of two
\* sentences
LongCut(segment, max) ==
  /\ Len(segment) >= max
  /\ Len(Sentences(segment)) = 3
  /\ Closings(Sentences(segment), max) = {{2}}

\* A short segment kept as it is
ShortKept(segment, max) == segment # <<>> /\ Len(segment) < max

CutAndKept(segments, max) ==
  /\ \E k \in 1..Len(segments) : LongCut(StrStrip(segments[k]), max)
  /\ \E k \in 1..Len(segments) : ShortKept(StrStrip(segments[k]), max)

\* A long segment cut into two paragraphs beside a short segment kept whole
C9_Witness ==
  /\ pc = "broken"
  /\ Len(result) = 3
  /\ CutAndKept(RawSegments(text, keys), max_chars)

\* ------------------------------------------------------------------------
\* Properties of the session state
\* ------------------------------------------------------------------------
\* What a Generate run with the inputs and the configuration `in` stores
Recomputed(in) ==
  LET data == merge_json_data(in.q_file, in.a_file).data
  IN  [processed_data |-> data,
       pdf_bytes |-> create_elegant_pdf(data, in.booklet_title, in.highlight_enabled,
                                        UserList(in.break_input),
                                        UserList(in.highlight_input)),
       json_bytes |-> FinalJsonStructure(in.section_input, data)]

\* C10 as amended: the PDF and the JSON on offer are those of the latest run
\* whose merge gave at least one record, made from that run's inputs and the
\* configuration in force at that run; a later run whose merge fails or
\* gives nothing, and a later change of the configuration, leave them on
\* offer unchanged; before the first such run nothing is on offer
C10_LatestStoredRunOnOffer ==
  /\ last_ok = NoLastOk => ~DownloadsOffered
  /\ last_ok # NoLastOk =>
       /\ DownloadsOffered
       /\ session_state = Recomputed(last_ok)
       /\ Downloads.pdf.data = Recomputed(last_ok).pdf_bytes
       /\ Downloads.json.data = Recomputed(last_ok).json_bytes

\* A run that failed after a run that stored, with the title changed since:
\* the earlier booklet is still on offer
C10_Witness ==
  /\ last_run = "nothing"
  /\ st_error
  /\ DownloadsOffered
  /\ last_ok # NoLastOk
  /\ booklet_title # last_ok.booklet_title

\* C10 as stated: what is on offer is what the most recent run made; after
\* a run whose merge failed or gave nothing, nothing of an earlier run is
RunEnded == last_run # "none"
C10_NothingRetained ==
  RunEnded =>
    /\ last_run = "nothing" => ~DownloadsOffered
    /\ last_run = "stored" => DownloadsOffered /\ session_state = Recomputed(last_ok)
====
